---- MODULE Spec2Model ----
(***************************************************************************)
(* Model of cargo-multiarch: the multi-variant build pipeline              *)
(* (src/compile_multiarch.rs, src/cargo_config_loader.rs,                  *)
(* src/rustc_queries.rs), the fat-binary packer                            *)
(* (src/multiarch-dispatch/build.rs) and the runtime dispatcher            *)
(* (src/multiarch-dispatch/src/binary_flavors.rs, features_x86.rs).        *)
(***************************************************************************)
EXTENDS Integers, Sequences, FiniteSets, TLC

\* ------------------------------------------------------------------------
\* Bounds
\* ------------------------------------------------------------------------

\* number of distinct SHA-256 digests a compiled variant can have
MaxDigest == 2
\* largest number of feature lists a package's metadata declares per arch
MaxLists == 2
\* largest number of patch entries of a FatBin handed to the dispatcher
MaxPatches == 2

\* most entries of a manifest handed to the packer
MaxBins == 3

\* most packages of a workspace
MaxPkgs == 2

\* ------------------------------------------------------------------------
\* Feature tokens
\* ------------------------------------------------------------------------

\* The feature tokens of the model, in the byte order of Rust's String Ord
\* (the iteration order of BTreeSet<String>).
TokenOrder == <<"avx", "avx2", "bmi2", "fma", "sse3", "sse4.1", "sse4.2">>

Tokens == {TokenOrder[i] : i \in 1..Len(TokenOrder)}

\* the tokens the hosts and hand-made images of the dispatcher runs range over
HostTokens == {"avx", "avx2", "bmi2", "fma", "sse3"}

TokenPos(t) == CHOOSE i \in 1..Len(TokenOrder) : TokenOrder[i] = t

\* BTreeSet<String>::iter().cloned().collect::<Vec<String>>(): the tokens of
\* a set in ascending String order.
RECURSIVE SetToVec(_)
SetToVec(s) ==
    IF s = {} THEN <<>>
    ELSE LET first == CHOOSE t \in s : \A u \in s : TokenPos(t) <= TokenPos(u)
         IN  <<first>> \o SetToVec(s \ {first})

VecToSet(v) == {v[i] : i \in 1..Len(v)}

\* Ord of BTreeSet<String> (derived on CpuFeatures): lexicographic on the
\* ascending token sequences.
RECURSIVE VecLess(_, _)
VecLess(a, b) ==
    IF b = <<>> THEN FALSE
    ELSE IF a = <<>> THEN TRUE
    ELSE IF Head(a) # Head(b) THEN TokenPos(Head(a)) < TokenPos(Head(b))
    ELSE VecLess(Tail(a), Tail(b))

CpuFeaturesLess(a, b) == VecLess(SetToVec(a), SetToVec(b))

\* ------------------------------------------------------------------------
\* Dispatcher ranking (features_x86.rs)
\* ------------------------------------------------------------------------

Rank(l, w) == [level |-> l, weight |-> w]

RANKING ==
    ("sse3" :> Rank(2, 1)) @@ ("ssse3" :> Rank(2, 2)) @@
    ("sse4.1" :> Rank(2, 3)) @@ ("popcnt" :> Rank(2, 4)) @@
    ("sse4.2" :> Rank(2, 5)) @@
    ("avx" :> Rank(3, 1)) @@ ("avx2" :> Rank(3, 2)) @@
    ("lzcnt" :> Rank(3, 2)) @@ ("bmi" :> Rank(3, 2)) @@
    ("bmi2" :> Rank(3, 2)) @@
    ("avx512f" :> Rank(4, 1)) @@ ("avx512cd" :> Rank(4, 1)) @@
    ("avx512vl" :> Rank(4, 2)) @@ ("avx512dq" :> Rank(4, 2)) @@
    ("avx512bw" :> Rank(4, 2))

\* Rust tuple comparison (lexicographic) on pairs and triples
Gt2(a, b) == \/ a[1] > b[1]
             \/ a[1] = b[1] /\ a[2] > b[2]

Gt3(a, b) == \/ a[1] > b[1]
             \/ a[1] = b[1] /\ a[2] > b[2]
             \/ a[1] = b[1] /\ a[2] = b[2] /\ a[3] > b[3]

\* One step of the inner fold of get_top_ranked: max = (max_level,
\* max_weight, count), feature = the next token of the variant.
fold_feature(max, feature) ==
    IF feature \in DOMAIN RANKING
    THEN LET level  == RANKING[feature].level
             weight == RANKING[feature].weight
         IN  IF Gt2(<<level, weight>>, <<max[1], max[2]>>)
             THEN <<level, weight, 1>>
             ELSE IF <<level, weight>> = <<max[1], max[2]>>
             THEN <<level, weight, max[3] + 1>>
             ELSE <<level, weight, max[3]>>
    ELSE max

\* The inner fold: (bin_level, bin_weight, bin_count) of one variant, its
\* tokens taken in list order, starting from (0, 0, 0).
RECURSIVE fold_features(_, _)
fold_features(max, feats) ==
    IF feats = <<>> THEN max
    ELSE fold_features(fold_feature(max, Head(feats)), Tail(feats))

bin_rank(feats) == fold_features(<<0, 0, 0>>, feats)

\* The outer fold: top = (top_index, top_level, top_weight, top_count),
\* index = 0-based position of the variant in the retained list.
RECURSIVE fold_flavors(_, _, _)
fold_flavors(top, index, lists) ==
    IF lists = <<>> THEN top
    ELSE LET bin == bin_rank(Head(lists))
             nxt == IF Gt3(bin, <<top[2], top[3], top[4]>>)
                    THEN <<index, bin[1], bin[2], bin[3]>>
                    ELSE top
         IN  fold_flavors(nxt, index + 1, Tail(lists))

\* FlavorsRank::get_top_ranked for FatBin on x86_64: 0-based position in
\* the retained list, -1 when the fold never replaced its initial value.
get_top_ranked(supported_feat_lists) ==
    fold_flavors(<<-1, 0, 0, 0>>, 0, supported_feat_lists)[1]

\* ------------------------------------------------------------------------
\* State
\* ------------------------------------------------------------------------

VARIABLES
    pc,                      \* position of the run
    \* -- build pipeline (cargo multiarch) --
    metadata,                \* [package.metadata] of the package being built
    target,                  \* architecture of Multiarch.target
    override_cpus,           \* Multiarch.override_cpus (CLI --cpus)
    override_cpufeatures,    \* Multiarch.override_cpufeatures (CLI --cpufeatures)
    archs,                   \* ConfigMultiArch.archs
    cpu_features,            \* result of get_cpu_features
    binaries_desc,           \* Vec<([u8; 32], BinaryDesc)> of compile_pkg_multi
    bins,                    \* Artifacts.bins returned by compile_pkg_multi
    \* -- packer (build.rs of multiarch-dispatch) --
    artifacts,               \* Artifacts.bins read from MULTIARCH_ARTIFACTS
    fallback_desc,           \* the entry generate_sources pops
    \* -- fat binary and dispatcher --
    patches_features_lists,  \* FatBin.patches_features_lists
    host_features,           \* tokens detect::features() reports available
    indices,                 \* get_supported_binaries().0
    feat_lists,              \* get_supported_binaries().1
    top_compatible_index,    \* result of get_top_ranked
    best_id,                 \* result of get_best_flavor_id
    \* -- the run of cargo multiarch and its scratch directory --
    print_query,             \* args.print is Some
    is_nightly,              \* what Rustc::is_nightly() answers
    err,                     \* the error main returns, "" if none
    fatbin_crate,            \* the generated launcher package is on disk
    files,                   \* scratch variant binaries: path -> content
    manifest_json,           \* multiarch-artifacts.json, an Option
    cargo_builds,            \* number of cargo builds invoked
    build_warning,           \* the packer printed cargo:warning
    \* -- the launcher at run time --
    default_exe,             \* FatBin.default_exe
    patches,                 \* FatBin.patches
    bin_file,                \* Binary.file of get_best_flavor, an Option
    io_error,                \* the io::Error get_best_flavor returned, an Option
    exec_ret,                \* what fexecve returned, an Option
    status,                  \* how the launcher process ended
    \* -- the workspace loop and the delivery of the final executable --
    pkgs,                    \* packages compile_workspace has not finished
    profile,                 \* Multiarch.profile (CLI --profile)
    output_path              \* where the package's executable went, an Option

vars == <<pc, metadata, target, override_cpus, override_cpufeatures, archs,
          cpu_features, binaries_desc, bins, artifacts, fallback_desc,
          patches_features_lists, host_features, indices, feat_lists,
          top_compatible_index, best_id, print_query, is_nightly, err,
          fatbin_crate, files, manifest_json, cargo_builds, build_warning,
          default_exe, patches, bin_file, io_error, exec_ret, status,
          pkgs, profile, output_path>>

deliver_vars == <<pkgs, profile, output_path>>

run_vars == <<print_query, is_nightly, err, fatbin_crate, files,
              manifest_json, cargo_builds, build_warning>>

launch_vars == <<default_exe, patches, bin_file, io_error, exec_ret, status>>

build_vars == <<metadata, target, override_cpus, override_cpufeatures, archs,
                cpu_features, binaries_desc, bins>>

packer_vars == <<artifacts, fallback_desc>>

dispatch_vars == <<host_features, indices, feat_lists, top_compatible_index,
                   best_id>>

\* Option<T>
None == [kind |-> "none", id |-> 0]
Some(i) == [kind |-> "some", id |-> i]
\* not computed yet / the thread panicked computing it
Unset == [kind |-> "unset", id |-> 0]
Panicked == [kind |-> "panic", id |-> 0]

\* how the launcher process ends: still running, exit(code), a panic
\* (an abort under panic = "abort"), or replaced by the exec'ed variant
NoStatus == [kind |-> "none", code |-> 0]
ExitStatus(c) == [kind |-> "exit", code |-> c]
PanicStatus == [kind |-> "panic", code |-> 0]
ExecStatus == [kind |-> "exec", code |-> 0]

\* ------------------------------------------------------------------------
\* Dispatcher (binary_flavors.rs)
\* ------------------------------------------------------------------------

\* a filter that asks for one common token only
is_supported_any(host, patch_feats) == VecToSet(patch_feats) \cap host # {}

\* host_features.is_superset(&HashSet::from_iter(patch_feats))
is_supported(host, patch_feats) == VecToSet(patch_feats) \subseteq host

\* positions (1-based) of the entries of lists the filter retains, ascending
RECURSIVE filter_positions(_, _, _)
filter_positions(host, lists, k) ==
    IF k > Len(lists) THEN <<>>
    ELSE (IF is_supported(host, lists[k]) THEN <<k>> ELSE <<>>)
         \o filter_positions(host, lists, k + 1)

\* filter().enumerate().unzip(): the indices count the retained entries
get_supported_binaries_renumbered(host, lists) ==
    LET kept == filter_positions(host, lists, 1)
    IN  [indices    |-> [j \in 1..Len(kept) |-> j - 1],
         feat_lists |-> [j \in 1..Len(kept) |-> lists[kept[j]]]]

\* FlavorsRank::get_supported_binaries: enumerate().filter().unzip();
\* .0 holds the original 0-based indices, .1 the feature lists
get_supported_binaries(host, lists) ==
    LET kept == filter_positions(host, lists, 1)
    IN  [indices    |-> [j \in 1..Len(kept) |-> kept[j] - 1],
         feat_lists |-> [j \in 1..Len(kept) |-> lists[kept[j]]]]

\* indices[top_compatible_index as usize]: a negative isize converts to a
\* usize of at least 2^63, which is out of bounds of any Vec, so the
\* indexing panics; otherwise the 0-based lookup.
index_as_usize(idxs, top) ==
    IF top >= 0 /\ top < Len(idxs) THEN Some(idxs[top + 1]) ELSE Panicked

\* first half of get_best_flavor_id: line 68
GetSupportedBinaries ==
    /\ pc = "get_best_flavor_id"
    /\ LET r == get_supported_binaries(host_features, patches_features_lists)
       IN  /\ indices' = r.indices
           /\ feat_lists' = r.feat_lists
    /\ pc' = "rank_supported"
    /\ UNCHANGED <<build_vars, packer_vars, patches_features_lists,
                   host_features, top_compatible_index, best_id>>
    /\ UNCHANGED <<run_vars, launch_vars>>
    /\ UNCHANGED deliver_vars

\* second half of get_best_flavor_id: lines 69-75
GetBestFlavorId ==
    /\ pc = "rank_supported"
    /\ IF Len(indices) = 0
       THEN /\ best_id' = None
            /\ UNCHANGED top_compatible_index
       ELSE /\ top_compatible_index' = get_top_ranked(feat_lists)
            /\ best_id' = index_as_usize(indices, get_top_ranked(feat_lists))
    /\ pc' = IF best_id'.kind = "panic" THEN "panic" ELSE "get_best_flavor"
    /\ status' = IF best_id'.kind = "panic" THEN PanicStatus ELSE status
    /\ UNCHANGED <<build_vars, packer_vars, patches_features_lists,
                   host_features, indices, feat_lists>>
    /\ UNCHANGED <<run_vars, default_exe, patches, bin_file, io_error,
                   exec_ret>>
    /\ UNCHANGED deliver_vars

\* ------------------------------------------------------------------------
\* Variant policy (cargo_config_loader.rs, rustc_queries.rs)
\* ------------------------------------------------------------------------

\* architectures a package's metadata can name
Archs == {"x86_64", "aarch64"}

\* CPU model names metadata and --cpus can name
Cpus == {"x86-64-v2", "x86-64-v3", "bogus"}

\* feature tokens metadata and --cpufeatures name in the model
BuildTokens == {"avx2", "sse3"}

\* CpuFeatures values: BTreeSet<String>
FeatureSets == SUBSET BuildTokens

\* the lists --cpufeatures is given: clap's value_delimiter(',') list
CliFeatureSets == FeatureSets \cup {{"avx2", "sse3", "sse4.2"}}

Line(k, v) == [key |-> k, value |-> v]

\* What `rustc --print=cfg --target <triple> -Ctarget-cpu=<cpu>` answers:
\* exit status, whether stderr is empty, and the stdout lines (key="value").
\* An unrecognised CPU name makes rustc write a diagnostic to stderr.
rustc_print_cfg(cpu) ==
    CASE cpu = "x86-64-v2" ->
           [success |-> TRUE, stderr_empty |-> TRUE,
            stdout |-> <<Line("target_arch", "x86_64"),
                         Line("target_feature", "sse3"),
                         Line("target_os", "linux")>>]
      [] cpu = "x86-64-v3" ->
           [success |-> TRUE, stderr_empty |-> TRUE,
            stdout |-> <<Line("target_arch", "x86_64"),
                         Line("target_feature", "avx2"),
                         Line("target_feature", "sse3"),
                         Line("target_feature", "sse4.1"),
                         Line("target_os", "linux")>>]
      [] OTHER ->
           [success |-> TRUE, stderr_empty |-> FALSE,
            stdout |-> <<Line("target_arch", "x86_64")>>]

\* the filter_map over stdout lines: values of the target_feature="..." lines
RECURSIVE target_feature_lines(_)
target_feature_lines(lines) ==
    IF lines = <<>> THEN <<>>
    ELSE (IF Head(lines).key = "target_feature"
          THEN <<Head(lines).value>> ELSE <<>>)
         \o target_feature_lines(Tail(lines))

\* Rustc::get_cpufeatures_for_programs: anyhow::Result<Vec<String>>
get_cpufeatures_for_programs(cpu) ==
    LET output == rustc_print_cfg(cpu)
    IN  IF output.success /\ output.stderr_empty
        THEN [ok |-> TRUE, list |-> target_feature_lines(output.stdout)]
        ELSE [ok |-> FALSE, list |-> <<>>]

\* ConfigTargetsForArch
ConfigTargetsForArch(c, l) == [cpus |-> c, cpufeatures_lists |-> l]

\* the same with the union dropped when cpus are present
get_cpu_features_cpus_first(config, arch) ==
    IF arch \notin DOMAIN config THEN {}
    ELSE LET features_of_cpus ==
                 {VecToSet(get_cpufeatures_for_programs(cpu).list) :
                     cpu \in {c \in config[arch].cpus :
                                 get_cpufeatures_for_programs(c).ok}}
         IN  IF features_of_cpus = {}
             THEN config[arch].cpufeatures_lists
             ELSE features_of_cpus

\* ConfigMultiArch::get_cpu_features: flat_map over a Result yields the value
\* of an Ok and nothing for an Err
get_cpu_features(config, arch) ==
    IF arch \notin DOMAIN config THEN {}
    ELSE LET features_of_cpus ==
                 {VecToSet(get_cpufeatures_for_programs(cpu).list) :
                     cpu \in {c \in config[arch].cpus :
                                 get_cpufeatures_for_programs(c).ok}}
         IN  IF config[arch].cpufeatures_lists = {}
             THEN features_of_cpus
             ELSE features_of_cpus \cup config[arch].cpufeatures_lists

\* HashMap::insert / get_mut on archs
MapPut(config, arch, entry) ==
    [a \in DOMAIN config \cup {arch} |->
        IF a = arch THEN entry ELSE config[a]]

\* the same, always building a fresh entry
override_cpus_fresh(config, arch, cpus) ==
    IF cpus = {} THEN config
    ELSE MapPut(config, arch, ConfigTargetsForArch(cpus, {}))

\* ConfigMultiArch::override_cpus
override_cpus_fn(config, arch, cpus) ==
    IF cpus = {} THEN config
    ELSE IF arch \in DOMAIN config
    THEN MapPut(config, arch,
                ConfigTargetsForArch(cpus, config[arch].cpufeatures_lists))
    ELSE MapPut(config, arch, ConfigTargetsForArch(cpus, {}))

\* ConfigMultiArch::override_features_lists
override_features_lists(config, arch, cpufeat_lists) ==
    IF cpufeat_lists = {} THEN config
    ELSE IF arch \in DOMAIN config
    THEN MapPut(config, arch,
                ConfigTargetsForArch(config[arch].cpus, cpufeat_lists))
    ELSE MapPut(config, arch, ConfigTargetsForArch({}, cpufeat_lists))

\* ------------------------------------------------------------------------
\* Compile and deduplicate (compile_multiarch.rs)
\* ------------------------------------------------------------------------

\* std::env::consts::EXE_EXTENSION on the Unix hosts of the launcher
EXE_EXTENSION == ""

\* tokens with a '.' in their name, and the part before their last '.'
BeforeDot == ("sse4.1" :> "sse4") @@ ("sse4.2" :> "sse4")

\* PathBuf::set_extension on the file name `bin-` + parts joined by `_`: the
\* name is cut at its last '.', if it has one, and `.` + extension is added
\* unless the extension is empty. The name is held as its parts.
set_extension(parts, extension) ==
    LET dotted == {k \in 1..Len(parts) : parts[k] \in DOMAIN BeforeDot}
        last == CHOOSE k \in dotted : \A j \in dotted : j <= k
    IN  [file_stem |-> IF dotted = {} THEN parts
                       ELSE SubSeq(parts, 1, last - 1)
                                \o <<BeforeDot[parts[last]]>>,
         extension |-> extension]

\* compile_pkg lines 353-357: the scratch path of the copy of a variant
scratch_path(cpu_feats_vec) == set_extension(cpu_feats_vec, EXE_EXTENSION)

\* the scratch directory before the run wrote a variant
NoFiles == [p \in {} |-> 0]

\* std::fs::copy to a path: creates or overwrites the file
fs_copy(fs, path, content) ==
    [p \in DOMAIN fs \cup {path} |-> IF p = path THEN content ELSE fs[p]]

\* SHA-256 digests, ordered as [u8; 32] values
Digests == 1..MaxDigest

\* BinaryDesc as serialized: cpufeatures is cpu_features.iter().collect()
BinaryDesc(cpu_feats) ==
    [path |-> scratch_path(SetToVec(cpu_feats)),
     cpufeatures |-> SetToVec(cpu_feats)]

\* BTreeSet<CpuFeatures>::iter(): the feature sets in ascending order
RECURSIVE iter_feature_sets(_)
iter_feature_sets(sets) ==
    IF sets = {} THEN <<>>
    ELSE LET first == CHOOSE a \in sets :
                          \A b \in sets \ {a} : CpuFeaturesLess(a, b)
         IN  <<first>> \o iter_feature_sets(sets \ {first})

\* permutations of 1..n
Perms(n) == {p \in [1..n -> 1..n] : \A i, j \in 1..n : p[i] = p[j] => i = j}

\* a comparator that looks at the number of declared features only
len_only_le(e1, e2) ==
    Len(e1.desc.cpufeatures) <= Len(e2.desc.cpufeatures)

\* the comparator of binaries_desc.sort_unstable_by: Ordering is not Greater;
\* digest first, then the number of declared features
hash_then_len_le(e1, e2) ==
    \/ e1.hash < e2.hash
    \/ e1.hash = e2.hash
          /\ Len(e1.desc.cpufeatures) <= Len(e2.desc.cpufeatures)

\* sort_unstable_by: every ordering of the elements the comparator accepts
\* (elements that compare Equal may end in any order)
sort_binaries_desc(v) ==
    {[i \in 1..Len(v) |-> v[p[i]]] : p \in
        {q \in Perms(Len(v)) :
            \A i \in 1..(Len(v) - 1) : hash_then_len_le(v[q[i]], v[q[i + 1]])}}

\* a dedup that keeps the last element of each run
RECURSIVE dedup_keep_last(_)
dedup_keep_last(v) ==
    IF Len(v) <= 1 THEN v
    ELSE IF v[1].hash = v[2].hash
    THEN dedup_keep_last(Tail(v))
    ELSE <<v[1]>> \o dedup_keep_last(Tail(v))

\* Vec::dedup_by(|h1, h2| h1.0 == h2.0): of each run of consecutive elements
\* with equal digests the first is kept
RECURSIVE dedup_by_hash(_)
dedup_by_hash(v) ==
    IF Len(v) <= 1 THEN v
    ELSE IF v[1].hash = v[2].hash
    THEN dedup_by_hash(<<v[1]>> \o Tail(Tail(v)))
    ELSE <<v[1]>> \o dedup_by_hash(Tail(v))

\* main lines 17-28: a --print query answers and returns before any check
PrintQuery ==
    /\ pc = "main"
    /\ print_query
    /\ pc' = "printed"
    /\ UNCHANGED <<build_vars, packer_vars, patches_features_lists,
                   dispatch_vars, run_vars, launch_vars>>
    /\ UNCHANGED deliver_vars

\* main lines 30-33 with the channel check left out
NightlyCheckSkipped ==
    /\ pc = "main"
    /\ ~print_query
    /\ pc' = "from_args"
    /\ UNCHANGED <<build_vars, packer_vars, patches_features_lists,
                   dispatch_vars, run_vars, launch_vars>>
    /\ UNCHANGED deliver_vars

\* main lines 30-33: anyhow::ensure!(Rustc::is_nightly(), ...)
NightlyCheck ==
    /\ pc = "main"
    /\ ~print_query
    /\ IF is_nightly
       THEN /\ pc' = "from_args"
            /\ UNCHANGED err
       ELSE /\ pc' = "error"
            /\ err' = "nightly"
    /\ UNCHANGED <<build_vars, packer_vars, patches_features_lists,
                   dispatch_vars, print_query, is_nightly, fatbin_crate,
                   files, manifest_json, cargo_builds, build_warning,
                   launch_vars>>
    /\ UNCHANGED deliver_vars

\* Multiarch::from_args: FatbinCrate::generate writes Cargo.toml and
\* src/main.rs of the launcher package under the scratch directory
FromArgs ==
    /\ pc = "from_args"
    /\ fatbin_crate' = TRUE
    /\ pc' = "load_cargo_toml"
    /\ UNCHANGED <<build_vars, packer_vars, patches_features_lists,
                   dispatch_vars, print_query, is_nightly, err, files,
                   manifest_json, cargo_builds, build_warning, launch_vars>>
    /\ UNCHANGED deliver_vars

\* compile_pkg_multi lines 249-250: ConfigMultiArch::new + load_cargo_toml
LoadCargoToml ==
    /\ pc = "load_cargo_toml"
    /\ IF metadata.decodable
       THEN /\ archs' = metadata.archs
            /\ pc' = "override_cpus"
            /\ UNCHANGED err
       ELSE /\ pc' = "error"
            /\ err' = "metadata"
            /\ UNCHANGED archs
    /\ UNCHANGED <<metadata, target, override_cpus, override_cpufeatures,
                   cpu_features, binaries_desc, bins, packer_vars,
                   patches_features_lists, dispatch_vars>>
    /\ UNCHANGED <<print_query, is_nightly, fatbin_crate, files,
                   manifest_json, cargo_builds, build_warning, launch_vars>>
    /\ UNCHANGED deliver_vars

\* compile_pkg_multi line 251
OverrideCpus ==
    /\ pc = "override_cpus"
    /\ archs' = override_cpus_fn(archs, target, override_cpus)
    /\ pc' = "override_features_lists"
    /\ UNCHANGED <<metadata, target, override_cpus, override_cpufeatures,
                   cpu_features, binaries_desc, bins, packer_vars,
                   patches_features_lists, dispatch_vars>>
    /\ UNCHANGED <<run_vars, launch_vars>>
    /\ UNCHANGED deliver_vars

\* compile_pkg_multi lines 252-254: the argument is
\* BTreeSet::from([self.override_cpufeatures.clone()])
OverrideFeaturesLists ==
    /\ pc = "override_features_lists"
    /\ archs' = override_features_lists(archs, target, {override_cpufeatures})
    /\ pc' = "get_cpu_features"
    /\ UNCHANGED <<metadata, target, override_cpus, override_cpufeatures,
                   cpu_features, binaries_desc, bins, packer_vars,
                   patches_features_lists, dispatch_vars>>
    /\ UNCHANGED <<run_vars, launch_vars>>
    /\ UNCHANGED deliver_vars

\* compile_pkg_multi lines 256-262
GetCpuFeatures ==
    /\ pc = "get_cpu_features"
    /\ cpu_features' = get_cpu_features(archs, target)
    /\ pc' = IF cpu_features' = {} THEN "error" ELSE "compile_pkg"
    /\ err' = IF cpu_features' = {} THEN "no_variants" ELSE err
    /\ UNCHANGED <<metadata, target, override_cpus, override_cpufeatures,
                   archs, binaries_desc, bins, packer_vars,
                   patches_features_lists, dispatch_vars>>
    /\ UNCHANGED <<print_query, is_nightly, fatbin_crate, files,
                   manifest_json, cargo_builds, build_warning, launch_vars>>
    /\ UNCHANGED deliver_vars

\* one iteration of the loop of lines 284-288, compile_pkg returning Ok: the
\* digest is that of the executable cargo built for the feature set
CompilePkg ==
    /\ pc = "compile_pkg"
    /\ Len(binaries_desc) < Cardinality(cpu_features)
    /\ LET current_feature_set ==
               iter_feature_sets(cpu_features)[Len(binaries_desc) + 1]
       IN  \E hash \in Digests :
               /\ files' = fs_copy(files,
                                   BinaryDesc(current_feature_set).path, hash)
               /\ binaries_desc' = Append(binaries_desc,
                      [hash |-> hash, desc |-> BinaryDesc(current_feature_set)])
    /\ cargo_builds' = cargo_builds + 1
    /\ UNCHANGED <<pc, metadata, target, override_cpus, override_cpufeatures,
                   archs, cpu_features, bins, packer_vars,
                   patches_features_lists, dispatch_vars>>
    /\ UNCHANGED <<print_query, is_nightly, err, fatbin_crate, manifest_json,
                   build_warning, launch_vars>>
    /\ UNCHANGED deliver_vars

\* a failing compile_pkg whose error is noted while the run goes on with
\* the variants built so far
CompilePkgErrIgnored ==
    /\ pc = "compile_pkg"
    /\ Len(binaries_desc) < Cardinality(cpu_features)
    /\ pc' = "compile_workspace"
    /\ err' = "compile"
    /\ cargo_builds' = cargo_builds + 1
    /\ bins' = [i \in 1..Len(binaries_desc) |-> binaries_desc[i].desc]
    /\ UNCHANGED <<metadata, target, override_cpus, override_cpufeatures,
                   archs, cpu_features, binaries_desc, packer_vars,
                   patches_features_lists, dispatch_vars>>
    /\ UNCHANGED <<print_query, is_nightly, fatbin_crate, files,
                   manifest_json, build_warning, launch_vars, deliver_vars>>

\* one iteration of the loop, compile_pkg returning Err (cargo failed, no
\* executable, copy or read failed): `?` returns the error
CompilePkgErr ==
    /\ pc = "compile_pkg"
    /\ Len(binaries_desc) < Cardinality(cpu_features)
    /\ pc' = "error"
    /\ err' = "compile"
    /\ cargo_builds' = cargo_builds + 1
    /\ UNCHANGED <<build_vars, packer_vars, patches_features_lists,
                   dispatch_vars>>
    /\ UNCHANGED <<print_query, is_nightly, fatbin_crate, files,
                   manifest_json, build_warning, launch_vars>>
    /\ UNCHANGED deliver_vars

\* compile_pkg_multi lines 290-305, after the loop
SortDedup ==
    /\ pc = "compile_pkg"
    /\ Len(binaries_desc) = Cardinality(cpu_features)
    /\ \E sorted \in sort_binaries_desc(binaries_desc) :
           /\ binaries_desc' = dedup_by_hash(sorted)
           /\ bins' = [i \in 1..Len(binaries_desc') |-> binaries_desc'[i].desc]
    /\ pc' = "compile_workspace"
    /\ UNCHANGED <<metadata, target, override_cpus, override_cpufeatures,
                   archs, cpu_features, packer_vars, patches_features_lists,
                   dispatch_vars>>
    /\ UNCHANGED <<run_vars, launch_vars>>
    /\ UNCHANGED deliver_vars

\* the file name cargo gave the package's executable
\* (BinaryDesc.original_filename)
original_filename == "app"

\* Cargo's target triple directory of Multiarch.target
target_string == "x86_64-unknown-linux-gnu"

\* the values --profile is given
Profiles == {"dev", "release", "custom"}

\* from_args lines 90-95
profile_dir(prof) == IF prof = "dev" THEN "debug" ELSE prof

\* a path <target_dir>/<triple>/<dir>/<name> under the scratch directory
TargetPath(dir, name) ==
    [triple |-> target_string, profile_dir |-> dir, file_name |-> name]

\* std::fs::rename of a scratch file to a path outside the variants
fs_remove(fs, path) == [p \in DOMAIN fs \ {path} |-> fs[p]]

\* compile_workspace lines 124-147: the for loop goes on to the next
\* package, or returns Ok(()) after the last
after_package(n) == IF n > 1 THEN "next_package" ELSE "done"

\* a slice pattern that also wants the one build to have no features
is_single_build_generic(v) == Len(v) = 1 /\ v[1].cpufeatures = <<>>

\* compile_workspace line 142: `if let [build] = &pkg_multiarch.bins[..]`
is_single_build(v) == Len(v) = 1

\* compile_workspace lines 142-143 and handle_single_arch: the one build is
\* renamed to the final output
HandleSingleArch ==
    /\ pc = "compile_workspace"
    /\ is_single_build(bins)
    /\ output_path' = <<TargetPath(profile_dir(profile), original_filename)>>
    /\ files' = fs_remove(files, bins[1].path)
    /\ pc' = after_package(pkgs)
    /\ UNCHANGED <<build_vars, packer_vars, patches_features_lists,
                   dispatch_vars>>
    /\ UNCHANGED <<print_query, is_nightly, err, fatbin_crate,
                   manifest_json, cargo_builds, build_warning, launch_vars,
                   pkgs, profile>>

\* compile_workspace lines 144-145 and handle_multi_arch up to cargo_build:
\* the Artifacts are serialized to multiarch-artifacts.json, which the
\* launcher's build script reads back (Artifacts::from_path, before its sort)
HandleMultiArch ==
    /\ pc = "compile_workspace"
    /\ ~is_single_build(bins)
    /\ manifest_json' = <<bins>>
    /\ cargo_builds' = cargo_builds + 1
    /\ artifacts' = bins
    /\ pc' = "sort_by_features"
    /\ UNCHANGED <<build_vars, fallback_desc, patches_features_lists,
                   dispatch_vars>>
    /\ UNCHANGED <<print_query, is_nightly, err, fatbin_crate, files,
                   build_warning, launch_vars>>
    /\ UNCHANGED deliver_vars

\* ------------------------------------------------------------------------
\* Packer (multiarch-dispatch/build.rs)
\* ------------------------------------------------------------------------

\* Vec::new(): the bytes of no file
EmptyBytes == 0

\* zstd::stream::encode_all(bytes, 3): a frame that decodes to bytes
zstd_encode(bytes) == [zstd |-> bytes]

\* zstd::decode_all / copy_decode of a frame
zstd_decode(frame) == frame.zstd

\* bsdiff(source, target) of build.rs: a patch from source to target
bsdiff(old, new) == [source |-> old, target |-> new]

\* what a patch applied to other bytes than its source gives
Garbage == -1

\* Bspatch::new(patch)?.apply(base, output)
bspatch_apply(patch, base) ==
    IF base = patch.source THEN patch.target ELSE Garbage

\* the comparator without reverse()
features_len_le(b1, b2) == Len(b1.cpufeatures) <= Len(b2.cpufeatures)

\* the comparator of sort_by_features: Ordering is not Greater; the number
\* of declared features, reversed
features_len_ge(b1, b2) == Len(b1.cpufeatures) >= Len(b2.cpufeatures)

\* from_path without its sort: the manifest as read
sort_by_features_skipped(v) == {v}

\* sort_unstable_by of sort_by_features: every ordering the comparator accepts
sort_by_features(v) ==
    {[i \in 1..Len(v) |-> v[p[i]]] : p \in
        {q \in Perms(Len(v)) :
            \A i \in 1..(Len(v) - 1) : features_len_ge(v[q[i]], v[q[i + 1]])}}

\* Artifacts::from_path line 63
SortByFeatures ==
    /\ pc = "sort_by_features"
    /\ artifacts' \in sort_by_features(artifacts)
    /\ pc' = "generate_sources"
    /\ UNCHANGED <<build_vars, fallback_desc, patches_features_lists,
                   dispatch_vars>>
    /\ UNCHANGED <<run_vars, launch_vars>>
    /\ UNCHANGED deliver_vars

\* Artifacts::generate_sources: pop the last entry as the fallback, the
\* others become the patch entries in order. fallback_desc is an Option,
\* held as a sequence of at most one element.
GenerateSources ==
    /\ pc = "generate_sources"
    /\ IF artifacts = <<>>
       THEN /\ fallback_desc' = <<>>
            /\ artifacts' = <<>>
            /\ build_warning' = TRUE
       ELSE /\ fallback_desc' = <<artifacts[Len(artifacts)]>>
            /\ artifacts' = SubSeq(artifacts, 1, Len(artifacts) - 1)
            /\ UNCHANGED build_warning
    /\ LET fallback == IF fallback_desc' = <<>> THEN EmptyBytes
                       ELSE files[fallback_desc'[1].path]
       IN  /\ patches' = [i \in 1..Len(artifacts') |->
                             bsdiff(fallback, files[artifacts'[i].path])]
           /\ default_exe' = zstd_encode(fallback)
    /\ patches_features_lists' =
           [i \in 1..Len(artifacts') |-> artifacts'[i].cpufeatures]
    /\ pc' = "packed"
    /\ UNCHANGED <<build_vars, dispatch_vars>>
    /\ UNCHANGED <<print_query, is_nightly, err, fatbin_crate, files,
                   manifest_json, cargo_builds, bin_file, io_error, exec_ret,
                   status>>
    /\ UNCHANGED deliver_vars

\* FatbinCrate::cargo_build after the build script: the launcher is built
\* with .release() into <target_dir>/<triple>/release and renamed there to
\* the original file name
CargoBuild ==
    /\ pc = "packed"
    /\ output_path' = <<TargetPath("release", original_filename)>>
    /\ pc' = after_package(pkgs)
    /\ UNCHANGED <<build_vars, packer_vars, patches_features_lists,
                   dispatch_vars, run_vars, launch_vars, pkgs, profile>>

\* ------------------------------------------------------------------------
\* Launcher at run time (lib.rs, binary_flavors.rs, exec_memory.rs)
\* ------------------------------------------------------------------------

\* the hosts a launcher is started on
LaunchHosts == {{}, {"avx2", "sse3"}, HostTokens}

\* std::io::ErrorKind of the errors memfd_create, zstd and bspatch report
ErrorKinds == {"InvalidInput", "InvalidData", "OutOfMemory", "Other"}

\* sysexits codes of proc_exit
DATA_ERR == 65
SOFTWARE_ERR == 70
IO_ERR == 74

\* proc_exit::sysexits::io_to_sysexists: an Option<Code>
io_to_sysexists(kind) ==
    IF kind \in {"InvalidInput", "InvalidData"} THEN Some(DATA_ERR) ELSE None

\* dispatch line 43: map_err(|e| io_to_sysexists(e.kind()).unwrap()) and
\* as_exit; unwrap of None panics
io_error_status(kind) ==
    IF io_to_sysexists(kind) = None THEN PanicStatus
    ELSE ExitStatus(io_to_sysexists(kind).id)

\* exec line 36 with every status taken for success
code_ok_always(ret) == [ok |-> TRUE, code |-> 0]

\* exec line 36: Code::new(status).ok() is Ok(()) for 0, Err(Exit) otherwise
code_ok(ret) == [ok |-> ret = 0, code |-> ret]

\* main line 29: proc_exit::exit ends the process with the Exit's code, or
\* with success for Ok(())
exit(result) == ExitStatus(IF result.ok THEN 0 ELSE result.code)

\* extract_flavor_into: the bytes written for id
extract_flavor(fatbin_default_exe, fatbin_patches, id) ==
    IF id = None THEN zstd_decode(fatbin_default_exe)
    ELSE bspatch_apply(fatbin_patches[id.id + 1],
                       zstd_decode(fatbin_default_exe))

\* the launcher built around the FatBinImage is started on a host
Launch ==
    /\ pc = "packed"
    /\ host_features' \in LaunchHosts
    /\ pc' = "get_best_flavor_id"
    /\ UNCHANGED <<build_vars, packer_vars, patches_features_lists, indices,
                   feat_lists, top_compatible_index, best_id, run_vars,
                   launch_vars>>
    /\ UNCHANGED deliver_vars

\* get_best_flavor line 156: Executable::create_writable(&bin_name)
CreateWritable ==
    /\ pc = "get_best_flavor"
    /\ bin_file' = <<EmptyBytes>>
    /\ pc' = "extract_flavor_into"
    /\ UNCHANGED <<build_vars, packer_vars, patches_features_lists,
                   dispatch_vars, run_vars, default_exe, patches, io_error,
                   exec_ret, status>>
    /\ UNCHANGED deliver_vars

\* create_writable line 23: memfd_create fails
CreateWritableErr ==
    /\ pc = "get_best_flavor"
    /\ \E kind \in ErrorKinds :
           /\ io_error' = <<kind>>
           /\ status' = io_error_status(kind)
    /\ pc' = "exited"
    /\ UNCHANGED <<build_vars, packer_vars, patches_features_lists,
                   dispatch_vars, run_vars, default_exe, patches, bin_file,
                   exec_ret>>
    /\ UNCHANGED deliver_vars

\* get_best_flavor line 157: extract_flavor_into(&mut bin.file, best_id)
ExtractFlavorInto ==
    /\ pc = "extract_flavor_into"
    /\ bin_file' = <<extract_flavor(default_exe, patches, best_id)>>
    /\ pc' = "exec"
    /\ UNCHANGED <<build_vars, packer_vars, patches_features_lists,
                   dispatch_vars, run_vars, default_exe, patches, io_error,
                   exec_ret, status>>
    /\ UNCHANGED deliver_vars

\* a failing extract_flavor_into whose error is dropped: dispatch goes on
\* to exec with the handle as it is
ExtractFlavorErrIgnored ==
    /\ pc = "extract_flavor_into"
    /\ \E kind \in ErrorKinds : io_error' = <<kind>>
    /\ pc' = "exec"
    /\ UNCHANGED <<build_vars, packer_vars, patches_features_lists,
                   dispatch_vars, run_vars, default_exe, patches, bin_file,
                   exec_ret, status, deliver_vars>>

\* extract_flavor_into lines 133-137: decoding, patching or the write to
\* the handle fails
ExtractFlavorErr ==
    /\ pc = "extract_flavor_into"
    /\ \E kind \in ErrorKinds :
           /\ io_error' = <<kind>>
           /\ status' = io_error_status(kind)
    /\ pc' = "exited"
    /\ UNCHANGED <<build_vars, packer_vars, patches_features_lists,
                   dispatch_vars, run_vars, default_exe, patches, bin_file,
                   exec_ret>>
    /\ UNCHANGED deliver_vars

\* exec line 35: fexecve replaces the process image and does not return;
\* the handle holds an executable
ExecReplaces ==
    /\ pc = "exec"
    /\ bin_file[1] \in Digests
    /\ status' = ExecStatus
    /\ pc' = "exited"
    /\ UNCHANGED <<build_vars, packer_vars, patches_features_lists,
                   dispatch_vars, run_vars, default_exe, patches, bin_file,
                   io_error, exec_ret>>
    /\ UNCHANGED deliver_vars

\* exec lines 35-36 and main line 29: fexecve returns, with -1
ExecReturns ==
    /\ pc = "exec"
    /\ exec_ret' = <<-1>>
    /\ status' = exit(code_ok(exec_ret'[1]))
    /\ pc' = "exited"
    /\ UNCHANGED <<build_vars, packer_vars, patches_features_lists,
                   dispatch_vars, run_vars, default_exe, patches, bin_file,
                   io_error>>
    /\ UNCHANGED deliver_vars

\* ------------------------------------------------------------------------
\* Specifications
\* ------------------------------------------------------------------------

\* HashMap::default()
EmptyMap == [a \in {} |-> ConfigTargetsForArch({}, {})]

\* the cpufeatures_lists a metadata table declares
PolicyLists == {l \in SUBSET FeatureSets : Cardinality(l) <= MaxLists}

\* the tables metadata declares for the architecture of the target
Policies == {ConfigTargetsForArch(c, l) : c \in SUBSET Cpus, l \in PolicyLists}

\* the tables metadata declares for the other architecture
OtherPolicies == {ConfigTargetsForArch({"x86-64-v3"}, {{"avx2"}})}

\* the decoded [package.metadata.multiarch] tables
ArchMaps ==
    {EmptyMap}
    \cup {[a \in {"x86_64"} |-> p] : p \in Policies}
    \cup {[a \in {"aarch64"} |-> o] : o \in OtherPolicies}
    \cup {[a \in Archs |-> IF a = "x86_64" THEN p ELSE o] :
             p \in Policies, o \in OtherPolicies}

\* package metadata: a table serde decodes, or one it rejects
Metadatas ==
    {[decodable |-> TRUE, archs |-> m] : m \in ArchMaps}
    \cup {[decodable |-> FALSE, archs |-> EmptyMap]}

\* the metadata of the packages of a workspace: no multiarch table, or one
\* serde rejects
WorkspaceMetadatas ==
    {[decodable |-> d, archs |-> EmptyMap] : d \in BOOLEAN}

\* compile_workspace lines 124-132: the next iteration of the loop starts
\* compile_pkg_multi on the next package, with a new ConfigMultiArch
NextPackage ==
    /\ pc = "next_package"
    /\ pkgs' = pkgs - 1
    /\ metadata' \in WorkspaceMetadatas
    /\ archs' = EmptyMap
    /\ cpu_features' = {}
    /\ binaries_desc' = <<>>
    /\ bins' = <<>>
    /\ artifacts' = <<>>
    /\ fallback_desc' = <<>>
    /\ patches_features_lists' = <<>>
    /\ default_exe' = zstd_encode(EmptyBytes)
    /\ patches' = <<>>
    /\ output_path' = <<>>
    /\ pc' = "load_cargo_toml"
    /\ UNCHANGED <<target, override_cpus, override_cpufeatures,
                   dispatch_vars, run_vars, bin_file, io_error, exec_ret,
                   status, profile>>

\* canonical non-empty feature lists over the model's tokens
FeatureVecs == {SetToVec(s) : s \in (SUBSET HostTokens) \ {{}}}

\* the patches_features_lists the packer emits: distinct feature lists in
\* non-increasing order of length
FatBinImages ==
    UNION {{img \in [1..n -> FeatureVecs] :
               /\ \A i, j \in 1..n : img[i] = img[j] => i = j
               /\ \A i \in 1..(n - 1) : Len(img[i]) >= Len(img[i + 1])} :
           n \in 0..MaxPatches}

BuildIdle ==
    /\ cpu_features = {}
    /\ binaries_desc = <<>>
    /\ bins = <<>>
    /\ artifacts = <<>>
    /\ fallback_desc = <<>>

DispatchIdle ==
    /\ host_features = {}
    /\ indices = <<>>
    /\ feat_lists = <<>>
    /\ top_compatible_index = 0
    /\ best_id = Unset

\* a run that passed main and from_args and has written no variant
RunIdle ==
    /\ print_query = FALSE
    /\ is_nightly = TRUE
    /\ err = ""
    /\ fatbin_crate = TRUE
    /\ files = NoFiles
    /\ manifest_json = <<>>
    /\ cargo_builds = 0
    /\ build_warning = FALSE

\* no launcher process
LaunchIdle ==
    /\ bin_file = <<>>
    /\ io_error = <<>>
    /\ exec_ret = <<>>
    /\ status = NoStatus

\* the build pipeline and the packer: cargo multiarch on one package
Init ==
    /\ pc = "main"
    /\ print_query \in BOOLEAN
    /\ is_nightly \in BOOLEAN
    /\ err = ""
    /\ fatbin_crate = FALSE
    /\ files = NoFiles
    /\ manifest_json = <<>>
    /\ cargo_builds = 0
    /\ build_warning = FALSE
    /\ metadata \in Metadatas
    /\ target = "x86_64"
    /\ override_cpus \in SUBSET Cpus
    /\ override_cpufeatures \in CliFeatureSets
    /\ archs = EmptyMap
    /\ BuildIdle
    /\ patches_features_lists = <<>>
    /\ default_exe = zstd_encode(EmptyBytes)
    /\ patches = <<>>
    /\ DispatchIdle
    /\ LaunchIdle
    /\ pkgs = 1
    /\ profile = "release"
    /\ output_path = <<>>

Next ==
    \/ PrintQuery
    \/ NightlyCheck
    \/ FromArgs
    \/ LoadCargoToml
    \/ OverrideCpus
    \/ OverrideFeaturesLists
    \/ GetCpuFeatures
    \/ CompilePkg
    \/ CompilePkgErr
    \/ SortDedup
    \/ HandleSingleArch
    \/ HandleMultiArch
    \/ SortByFeatures
    \/ GenerateSources
    \/ CargoBuild

Spec == Init /\ [][Next]_vars

\* get_cpu_features on any ConfigMultiArch
ResolverInit ==
    /\ pc = "get_cpu_features"
    /\ metadata = [decodable |-> TRUE, archs |-> EmptyMap]
    /\ target = "x86_64"
    /\ override_cpus = {}
    /\ override_cpufeatures = {}
    /\ archs \in ArchMaps
    /\ BuildIdle
    /\ RunIdle
    /\ patches_features_lists = <<>>
    /\ default_exe = zstd_encode(EmptyBytes)
    /\ patches = <<>>
    /\ DispatchIdle
    /\ LaunchIdle
    /\ pkgs = 1
    /\ profile = "release"
    /\ output_path = <<>>

ResolverNext == GetCpuFeatures

ResolverSpec == ResolverInit /\ [][ResolverNext]_vars

\* the dispatcher of a launcher on a host
DispatchInit ==
    /\ pc = "get_best_flavor_id"
    /\ metadata = [decodable |-> TRUE, archs |-> EmptyMap]
    /\ target = "x86_64"
    /\ override_cpus = {}
    /\ override_cpufeatures = {}
    /\ archs = EmptyMap
    /\ BuildIdle
    /\ RunIdle
    /\ patches_features_lists \in FatBinImages
    /\ default_exe = zstd_encode(1)
    /\ patches = [i \in 1..Len(patches_features_lists) |-> bsdiff(1, 1)]
    /\ host_features \in SUBSET HostTokens
    /\ indices = <<>>
    /\ feat_lists = <<>>
    /\ top_compatible_index = 0
    /\ best_id = Unset
    /\ LaunchIdle
    /\ pkgs = 1
    /\ profile = "release"
    /\ output_path = <<>>

DispatchNext ==
    \/ GetSupportedBinaries
    \/ GetBestFlavorId

DispatchSpec == DispatchInit /\ [][DispatchNext]_vars

\* the manifests MULTIARCH_ARTIFACTS can name: any list of BinaryDesc, in
\* any order; an absent manifest is Artifacts::default(), the empty list
Manifests ==
    UNION {[1..n -> {BinaryDesc(f) : f \in FeatureSets}] : n \in 0..MaxBins}

\* the paths a manifest names
manifest_paths(m) == {m[i].path : i \in 1..Len(m)}

\* the packer on any manifest whose files exist, then the launcher it was
\* built into on a host
LauncherInit ==
    /\ pc = "sort_by_features"
    /\ metadata = [decodable |-> TRUE, archs |-> EmptyMap]
    /\ target = "x86_64"
    /\ override_cpus = {}
    /\ override_cpufeatures = {}
    /\ archs = EmptyMap
    /\ cpu_features = {}
    /\ binaries_desc = <<>>
    /\ bins \in Manifests
    /\ artifacts = bins
    /\ fallback_desc = <<>>
    /\ print_query = FALSE
    /\ is_nightly = TRUE
    /\ err = ""
    /\ fatbin_crate = TRUE
    /\ files \in [manifest_paths(bins) -> Digests]
    /\ manifest_json = <<bins>>
    /\ cargo_builds = 1
    /\ build_warning = FALSE
    /\ patches_features_lists = <<>>
    /\ default_exe = zstd_encode(EmptyBytes)
    /\ patches = <<>>
    /\ DispatchIdle
    /\ LaunchIdle
    /\ pkgs = 1
    /\ profile = "release"
    /\ output_path = <<>>

LauncherNext ==
    \/ SortByFeatures
    \/ GenerateSources
    \/ Launch
    \/ GetSupportedBinaries
    \/ GetBestFlavorId
    \/ CreateWritable
    \/ CreateWritableErr
    \/ ExtractFlavorInto
    \/ ExtractFlavorErr
    \/ ExecReplaces
    \/ ExecReturns

LauncherSpec == LauncherInit /\ [][LauncherNext]_vars

\* compile_workspace on a workspace of up to MaxPkgs packages, with any
\* --profile, after main and from_args
WorkspaceInit ==
    /\ pc = "load_cargo_toml"
    /\ pkgs \in 1..MaxPkgs
    /\ profile \in Profiles
    /\ output_path = <<>>
    /\ metadata \in WorkspaceMetadatas
    /\ target = "x86_64"
    /\ override_cpus \in SUBSET Cpus
    /\ override_cpufeatures \in CliFeatureSets
    /\ archs = EmptyMap
    /\ BuildIdle
    /\ RunIdle
    /\ patches_features_lists = <<>>
    /\ default_exe = zstd_encode(EmptyBytes)
    /\ patches = <<>>
    /\ DispatchIdle
    /\ LaunchIdle

WorkspaceNext ==
    \/ LoadCargoToml
    \/ OverrideCpus
    \/ OverrideFeaturesLists
    \/ GetCpuFeatures
    \/ CompilePkg
    \/ CompilePkgErr
    \/ SortDedup
    \/ HandleSingleArch
    \/ HandleMultiArch
    \/ SortByFeatures
    \/ GenerateSources
    \/ CargoBuild
    \/ NextPackage

WorkspaceSpec == WorkspaceInit /\ [][WorkspaceNext]_vars

\* ------------------------------------------------------------------------
\* Properties
\* ------------------------------------------------------------------------

\* get_best_flavor_id has returned
Ranked == pc \in {"get_best_flavor", "panic"}

\* C1: whenever get_best_flavor_id returns an index i, every token of
\* patches_features_lists[i] is a member of the host feature set.
C1_ChosenSubsetOfHost ==
    best_id.kind = "some" =>
        /\ best_id.id + 1 \in 1..Len(patches_features_lists)
        /\ \A k \in 1..Len(patches_features_lists[best_id.id + 1]) :
               patches_features_lists[best_id.id + 1][k] \in host_features

\* an index other than 0 was returned while the host lacks a token of
\* another entry
C1_Witness ==
    /\ best_id.kind = "some"
    /\ best_id.id > 0
    /\ Len(indices) < Len(patches_features_lists)

\* the fallback generate_sources popped, if any
FallbackFeatures == fallback_desc[1].cpufeatures

\* C2: the variant the packer pops as fallback and embeds as default_exe has
\* an empty FeatureSet, for every manifest the build pipeline produces.
C2_FallbackHasNoFeatures ==
    pc = "packed" => (fallback_desc # <<>> /\ FallbackFeatures = <<>>)

\* the step of compile_pkg_multi that sorts and deduplicates
DedupStep == pc = "compile_pkg" /\ pc' = "compile_workspace"

Hashes(v) == {v[i].hash : i \in 1..Len(v)}

\* C3: after deduplication no two manifest entries have equal digests, and
\* every digest of the input is represented by exactly one entry, which is
\* one of the built variants.
C3_DedupDistinctDigests ==
    [][DedupStep =>
        /\ \A i, j \in 1..Len(binaries_desc') :
               binaries_desc'[i].hash = binaries_desc'[j].hash => i = j
        /\ Hashes(binaries_desc') = Hashes(binaries_desc)
        /\ \A i \in 1..Len(binaries_desc') :
               \E k \in 1..Len(binaries_desc) :
                   binaries_desc'[i] = binaries_desc[k]
        /\ Len(bins') = Len(binaries_desc')
        /\ \A i \in 1..Len(bins') : bins'[i] = binaries_desc'[i].desc]_vars

\* three variants were built, two of them with the same digest, and two
\* manifest entries are left
C3_Witness ==
    /\ pc = "compile_workspace"
    /\ Cardinality(cpu_features) = 3
    /\ Len(bins) = 2

\* C4: of the built variants with one digest, the survivor has the fewest
\* declared features; a variant without features survives.
C4_DedupKeepsFewestFeatures ==
    [][DedupStep =>
        /\ \A k \in 1..Len(binaries_desc) : \A i \in 1..Len(binaries_desc') :
               binaries_desc'[i].hash = binaries_desc[k].hash =>
                   Len(binaries_desc'[i].desc.cpufeatures)
                       <= Len(binaries_desc[k].desc.cpufeatures)
        /\ \A k \in 1..Len(binaries_desc) :
               binaries_desc[k].desc.cpufeatures = <<>> =>
                   \E i \in 1..Len(binaries_desc') :
                       binaries_desc'[i] = binaries_desc[k]]_vars

\* the variant without features had the digest of another variant and is
\* the only manifest entry left
C4_Witness ==
    /\ pc = "compile_workspace"
    /\ Cardinality(cpu_features) >= 2
    /\ bins = <<BinaryDesc({})>>

\* the overrides have been applied
Resolved ==
    pc \notin {"main", "printed", "from_args", "load_cargo_toml",
               "override_cpus", "override_features_lists", "error"}

\* C5: without --cpus and without --cpufeatures the policy loaded from the
\* metadata is left untouched by the override steps.
C5_EmptyCliKeepsMetadata ==
    (Resolved /\ override_cpus = {} /\ override_cpufeatures = {})
        => archs = metadata.archs

\* the entry of arch is there after the step with cpus c and lists l, and
\* every other entry is as it was
OverrideEffect(arch, c, l) ==
    /\ DOMAIN archs' = DOMAIN archs \cup {arch}
    /\ archs'[arch].cpus = c
    /\ archs'[arch].cpufeatures_lists = l
    /\ \A a \in DOMAIN archs \ {arch} : archs'[a] = archs[a]

\* C6: override_cpus (override_features_lists) with a non-empty value sets
\* cpus (cpufeatures_lists) of the target architecture's entry to the value,
\* creates the entry with the other field empty if absent, and leaves the
\* other field and the other architectures' entries unchanged.
C6_OverrideFrame ==
    [][/\ (pc = "override_cpus" /\ override_cpus # {}) =>
              OverrideEffect(target, override_cpus,
                  IF target \in DOMAIN archs
                  THEN archs[target].cpufeatures_lists ELSE {})
       /\ pc = "override_features_lists" =>
              OverrideEffect(target,
                  IF target \in DOMAIN archs
                  THEN archs[target].cpus ELSE {},
                  {override_cpufeatures})]_vars

\* override_cpus has replaced the cpus of an entry that declares feature
\* lists, next to an entry of the other architecture
C6_Witness ==
    /\ pc = "override_features_lists"
    /\ override_cpus # {}
    /\ DOMAIN metadata.archs = Archs
    /\ DOMAIN archs = Archs
    /\ archs[target].cpus = override_cpus
    /\ archs[target].cpus # metadata.archs[target].cpus
    /\ archs[target].cpufeatures_lists # {}

\* the FeatureSets the compiler query yields for the cpus of a policy
QueriedFeatureSets(cpus) ==
    {fs \in SUBSET Tokens :
        \E cpu \in cpus :
            /\ rustc_print_cfg(cpu).success
            /\ rustc_print_cfg(cpu).stderr_empty
            /\ fs = {l.value : l \in
                        {rustc_print_cfg(cpu).stdout[i] :
                            i \in 1..Len(rustc_print_cfg(cpu).stdout)} \cap
                        {Line("target_feature", t) : t \in Tokens}}}

\* get_cpu_features has returned
Queried == pc \in {"compile_pkg", "error"}

\* C7: get_cpu_features returns the union of the FeatureSets the compiler
\* query yields for the cpus of the target architecture's policy and of its
\* cpufeatures_lists, and the empty set when that architecture has no entry.
C7_CpuFeaturesIsUnion ==
    Queried =>
        cpu_features =
            IF target \in DOMAIN archs
            THEN QueriedFeatureSets(archs[target].cpus)
                     \cup archs[target].cpufeatures_lists
            ELSE {}

\* a policy with cpus and feature lists gave a set that has members of both
\* origins, next to an entry of the other architecture
C7_Witness ==
    /\ Queried
    /\ DOMAIN archs = Archs
    /\ cpu_features \ archs[target].cpufeatures_lists # {}
    /\ cpu_features \ QueriedFeatureSets(archs[target].cpus) # {}

\* the policy of the target architecture names a CPU the compiler rejects
UnknownCpuInPolicy ==
    /\ target \in DOMAIN archs
    /\ \E cpu \in archs[target].cpus : ~get_cpufeatures_for_programs(cpu).ok

\* C8: if a CpuModel of the policy is unknown to the compiler, the run ends
\* with an error and no variant is compiled.
C8_UnknownCpuIsError ==
    (pc \notin {"main", "printed", "from_args", "load_cargo_toml",
                "override_cpus", "override_features_lists",
                "get_cpu_features"} /\ UnknownCpuInPolicy)
        => (pc = "error" /\ binaries_desc = <<>>)

Max(S) == CHOOSE x \in S : \A y \in S : y <= x

\* (level, weight, count) of a variant as a function of its tokens: the
\* greatest level, the greatest weight at that level, the number of tokens
\* with that level and weight; (0, 0, 0) without a ranked token
RankTriple(feats) ==
    LET ranked == {k \in 1..Len(feats) : feats[k] \in DOMAIN RANKING}
    IN  IF ranked = {} THEN <<0, 0, 0>>
        ELSE LET level  == Max({RANKING[feats[k]].level : k \in ranked})
                 weight == Max({RANKING[feats[k]].weight :
                                  k \in {j \in ranked :
                                            RANKING[feats[j]].level = level}})
             IN  <<level, weight,
                   Cardinality({k \in ranked :
                                   RANKING[feats[k]] = Rank(level, weight)})>>

\* positions (0-based) of the retained variants with the greatest triple
TopPositions ==
    {k - 1 : k \in {i \in 1..Len(feat_lists) :
                       \A j \in 1..Len(feat_lists) :
                           ~Gt3(RankTriple(feat_lists[j]),
                                RankTriple(feat_lists[i]))}}

\* C9: get_top_ranked computes for every retained variant the triple
\* (greatest level, greatest weight at that level, number of tokens with that
\* level and weight) and returns the position of a variant whose triple is
\* the greatest.
C9_TopRankedIsGreatestTriple ==
    (Ranked /\ feat_lists # <<>>) =>
        /\ \A k \in 1..Len(feat_lists) :
               bin_rank(feat_lists[k]) = RankTriple(feat_lists[k])
        /\ top_compatible_index \in TopPositions

\* C10: when several retained variants have the greatest triple,
\* get_top_ranked returns the earliest of them.
C10_TieGoesToEarliest ==
    (Ranked /\ Cardinality(TopPositions) >= 2) =>
        /\ top_compatible_index \in TopPositions
        /\ \A k \in TopPositions : top_compatible_index <= k

\* C11: get_best_flavor_id returns None exactly when no entry is supported by
\* the host; with a retained entry get_top_ranked returns a position of the
\* retained list, never -1, and the result is the FatBin index at that
\* position.
C11_NoneIffNothingSupported ==
    Ranked =>
        /\ best_id = None <=> feat_lists = <<>>
        /\ feat_lists # <<>> =>
               /\ top_compatible_index \in 0..(Len(feat_lists) - 1)
               /\ best_id = Some(indices[top_compatible_index + 1])

\* generate_sources has written the FatBinImage
Emitted ==
    pc \in {"packed", "get_best_flavor_id", "rank_supported",
            "get_best_flavor", "panic", "extract_flavor_into", "exec",
            "exited"}

\* C12: in every FatBinImage emitted by generate_sources the entries of
\* patches_features_lists are in non-increasing order of feature count, and
\* every entry has at least as many features as the fallback.
C12_PatchesLargestFirst ==
    Emitted =>
        /\ \A i, j \in 1..Len(patches_features_lists) :
               i < j => Len(patches_features_lists[i])
                            >= Len(patches_features_lists[j])
        /\ \A i \in 1..Len(patches_features_lists) :
               \A k \in 1..Len(fallback_desc) :
                   Len(patches_features_lists[i])
                       >= Len(fallback_desc[k].cpufeatures)

\* a manifest given smallest first was packed into two patch entries and a
\* fallback of three different feature counts
C12_Witness ==
    /\ pc = "packed"
    /\ Len(bins) = 3
    /\ Len(bins[1].cpufeatures) < Len(bins[2].cpufeatures)
    /\ Len(bins[2].cpufeatures) < Len(bins[3].cpufeatures)
    /\ Len(patches_features_lists) = 2
    /\ fallback_desc # <<>>

\* v ordered by feature count, largest first, entries of equal count in the
\* order they have in v
StableByFeatures(v) ==
    LET p == CHOOSE q \in Perms(Len(v)) :
                 \A i, j \in 1..Len(v) :
                     i < j =>
                         \/ Len(v[q[i]].cpufeatures) > Len(v[q[j]].cpufeatures)
                         \/ /\ Len(v[q[i]].cpufeatures)
                                  = Len(v[q[j]].cpufeatures)
                            /\ q[i] < q[j]
    IN  [i \in 1..Len(v) |-> v[p[i]]]

\* C13: the packer's sort orders the manifest by feature count, largest
\* first, and entries with the same feature count keep their manifest order,
\* so the manifest alone decides the patch order and the fallback.
C13_EqualCountsKeepManifestOrder ==
    [][(pc = "sort_by_features" /\ pc' = "generate_sources")
           => artifacts' = StableByFeatures(artifacts)]_vars

\* compile_pkg_multi has returned the manifest of the package
ManifestProduced ==
    pc \in {"compile_workspace", "done", "sort_by_features",
            "generate_sources", "packed"}

\* the positions of the manifest entries with an empty FeatureSet
EmptyFeatureEntries == {i \in 1..Len(bins) : bins[i].cpufeatures = <<>>}

\* C14: a manifest produced by compile_pkg_multi has at most one entry with
\* an empty FeatureSet, and when it has one, that entry is last after the
\* packer's sort and is the one generate_sources takes as fallback.
C14_EmptyFeatureSetIsFallback ==
    ManifestProduced =>
        /\ Cardinality(EmptyFeatureEntries) <= 1
        /\ (pc = "generate_sources" /\ EmptyFeatureEntries # {})
               => artifacts[Len(artifacts)].cpufeatures = <<>>
        /\ (pc = "packed" /\ EmptyFeatureEntries # {})
               => /\ fallback_desc # <<>>
                  /\ fallback_desc[1].cpufeatures = <<>>
                  /\ \A i \in 1..Len(patches_features_lists) :
                         patches_features_lists[i] # <<>>

\* a manifest whose first entry has the empty FeatureSet was packed with
\* that entry as fallback
C14_Witness ==
    /\ pc = "packed"
    /\ Len(bins) >= 2
    /\ bins[1].cpufeatures = <<>>
    /\ fallback_desc # <<>>
    /\ fallback_desc[1].cpufeatures = <<>>

\* the bytes compile_pkg produced for the variant with the feature list
\* feats, named by the digest taken of them
ProducedBytes(feats) ==
    LET e == CHOOSE k \in 1..Len(binaries_desc) :
                 binaries_desc[k].desc.cpufeatures = feats
    IN  binaries_desc[e].hash

\* C15: for a FatBinImage built from a pipeline manifest, the bytes
\* reconstructed for index i (decompress default_exe, apply patches[i]) are
\* the bytes the build produced for the variant with FeatureSet
\* patches_features_lists[i], and the bytes reconstructed for "none" are the
\* bytes the build produced for the fallback.
C15_ReconstructionRoundTrip ==
    pc = "packed" =>
        /\ \A i \in 1..Len(patches_features_lists) :
               extract_flavor(default_exe, patches, Some(i - 1))
                   = ProducedBytes(patches_features_lists[i])
        /\ extract_flavor(default_exe, patches, None)
               = ProducedBytes(fallback_desc[1].cpufeatures)

\* the exit codes of sysexits.h: EX__BASE .. EX__MAX
SysexitCodes == 64..78

\* C16: when create_writable, the decompression of the fallback or the
\* patch application fails with an I/O error, of any kind, the launcher
\* exits with a sysexit code; it neither panics nor exits with success.
C16_IoFailureExitsWithSysexit ==
    io_error # <<>> =>
        /\ status.kind = "exit"
        /\ status.code \in SysexitCodes

\* the emitted FatBinImage has no fallback and no patch entry
EmptyImage ==
    /\ Emitted
    /\ fallback_desc = <<>>
    /\ patches_features_lists = <<>>

\* C17: for an empty FatBinImage the packer has printed its build warning,
\* and the launcher never reaches exec and, unless an I/O error ended it
\* before, ends with exit code SOFTWARE_ERR.
C17_EmptyImageIsSoftwareError ==
    EmptyImage =>
        /\ build_warning
        /\ pc # "exec"
        /\ exec_ret = <<>>
        /\ (pc = "exited" /\ io_error = <<>>)
               => status = ExitStatus(SOFTWARE_ERR)

\* C18: whenever the exec call on the handle returns, the launcher exits with
\* exactly the status the call returned, and that status is not success.
C18_ExecReturnIsExitStatus ==
    exec_ret # <<>> =>
        /\ pc = "exited"
        /\ status = ExitStatus(exec_ret[1])
        /\ status.code # 0

\* fexecve returned on the handle holding a reconstructed patch variant
C18_Witness ==
    /\ exec_ret # <<>>
    /\ best_id.kind = "some"
    /\ bin_file # <<>>
    /\ bin_file[1] \in Digests
    /\ status.kind = "exit"

\* the run has written nothing under the scratch directory and has invoked
\* no compiler build
NothingBuilt ==
    /\ ~fatbin_crate
    /\ files = NoFiles
    /\ manifest_json = <<>>
    /\ cargo_builds = 0
    /\ binaries_desc = <<>>

\* C19: in a run that is not a print query the nightly check comes first:
\* until it has passed nothing is written and no build is invoked, and when
\* the compiler is not nightly the run ends there with an error.
C19_NightlyCheckedFirst ==
    ~print_query =>
        /\ pc = "main" => NothingBuilt
        /\ ~is_nightly =>
               /\ pc \in {"main", "error"}
               /\ pc = "error" => err = "nightly"
               /\ NothingBuilt

\* a build run on a compiler that is not nightly has ended with the error
C19_Witness ==
    /\ ~print_query
    /\ ~is_nightly
    /\ pc = "error"
    /\ err = "nightly"

\* the run has ended with a configuration error
ConfigurationError ==
    /\ pc = "error"
    /\ err \in {"metadata", "no_variants"}

\* C20: when a run ends with a configuration error, the scratch directory
\* holds nothing the run created: no generated launcher package, no variant
\* binary and no manifest.
C20_ConfigErrorLeavesNothing ==
    ConfigurationError =>
        /\ ~fatbin_crate
        /\ files = NoFiles
        /\ manifest_json = <<>>

\* C21: once the compile of a variant has failed the run has ended with that
\* error: the failing step and every later step compile no further variant,
\* write no manifest, build no launcher and start no later package.
C21_NoRecoveryAfterCompileFailure ==
    /\ [](err = "compile" => pc = "error")
    /\ [][(err' = "compile")
              => UNCHANGED <<binaries_desc, bins, manifest_json,
                             fatbin_crate, artifacts, patches_features_lists,
                             pkgs, output_path>>]_vars
    /\ [][(err = "compile")
              => /\ err' = "compile"
                 /\ UNCHANGED <<cargo_builds, files>>]_vars

\* the second variant of a package failed to compile while another package
\* of the workspace was still to be built
C21_Witness ==
    /\ pc = "error"
    /\ err = "compile"
    /\ binaries_desc # <<>>
    /\ Len(binaries_desc) < Cardinality(cpu_features)
    /\ pkgs >= 2

\* C22: on success the final executable of a package is delivered under its
\* original file name to <target>/<triple>/<profile-dir>/, where profile-dir
\* is debug for the profile dev and the profile name otherwise, on the
\* single-variant path and on the launcher path alike.
C22_DeliveredToProfileDir ==
    output_path # <<>> =>
        /\ output_path[1].triple = target_string
        /\ output_path[1].profile_dir
               = (IF profile = "dev" THEN "debug" ELSE profile)
        /\ output_path[1].file_name = original_filename

\* fexecve is about to be called on the handle, or has been called
ExecInvoked ==
    \/ pc = "exec"
    \/ exec_ret # <<>>
    \/ status.kind = "exec"

\* C23: exec is invoked only after the handle has been created and holds
\* the complete reconstructed bytes of the chosen variant; when the handle
\* creation or the reconstruction has failed, exec is never invoked.
C23_DispatchCompletesBeforeExec ==
    /\ ExecInvoked =>
           /\ best_id.kind \in {"none", "some"}
           /\ bin_file = <<extract_flavor(default_exe, patches, best_id)>>
           /\ io_error = <<>>
    /\ io_error # <<>> => ~ExecInvoked

\* the launcher was replaced by a patch variant it had reconstructed
C23_Witness ==
    /\ status.kind = "exec"
    /\ best_id.kind = "some"
    /\ bin_file = <<extract_flavor(default_exe, patches, best_id)>>
    /\ bin_file[1] \in Digests

\* get_supported_binaries has returned
Filtered == pc \in {"rank_supported", "get_best_flavor", "panic"}

\* C24: get_supported_binaries retains an entry of the FatBinImage exactly
\* when every token of its FeatureSet is a host feature, returns the
\* retained entries in image order, and the k-th returned index is the
\* position in patches_features_lists of the k-th returned feature list.
C24_RetainedIffSupported ==
    Filtered =>
        /\ Len(indices) = Len(feat_lists)
        /\ \A k \in 1..Len(indices) :
               /\ indices[k] \in 0..(Len(patches_features_lists) - 1)
               /\ feat_lists[k] = patches_features_lists[indices[k] + 1]
        /\ \A k, l \in 1..Len(indices) : k < l => indices[k] < indices[l]
        /\ \A i \in 1..Len(patches_features_lists) :
               (\E k \in 1..Len(indices) : indices[k] = i - 1)
                   <=> (\A t \in 1..Len(patches_features_lists[i]) :
                            patches_features_lists[i][t] \in host_features)

\* the first entry of the image was dropped and the second retained, so the
\* returned index differs from the position in the returned list
C24_Witness ==
    /\ pc = "rank_supported"
    /\ Len(patches_features_lists) = 2
    /\ indices = <<1>>
    /\ feat_lists = <<patches_features_lists[2]>>

\* variants of the package are in the scratch directory: from the first
\* compile_pkg until the manifest has been packed or the one build moved
VariantsOnDisk ==
    pc \in {"compile_pkg", "compile_workspace", "sort_by_features",
            "generate_sources", "packed"}

\* C25: within one package's build two distinct FeatureSets are copied to
\* distinct scratch paths, so no copy overwrites an earlier one and the file
\* at each built variant's path holds the content whose digest was recorded
\* for that variant.
C25_DistinctScratchPaths ==
    VariantsOnDisk =>
        /\ \A k, l \in 1..Len(binaries_desc) :
               binaries_desc[k].desc.cpufeatures
                       # binaries_desc[l].desc.cpufeatures
                   => binaries_desc[k].desc.path # binaries_desc[l].desc.path
        /\ \A k \in 1..Len(binaries_desc) :
               /\ binaries_desc[k].desc.path \in DOMAIN files
               /\ files[binaries_desc[k].desc.path] = binaries_desc[k].hash

\* the step of compile_workspace that hands the package's builds on
HandOver == pc = "compile_workspace" /\ pc' # "compile_workspace"

\* C26: compile_workspace skips packing (the one build is moved to the final
\* output, no manifest is written, no launcher is built) exactly when one
\* variant survives deduplication, whatever its FeatureSet; with two or more
\* it writes the manifest and builds the launcher; the launcher build never
\* gets an empty manifest.
C26_SkipPackingIffOneSurvivor ==
    /\ [](pc = "compile_workspace" => Len(bins) >= 1)
    /\ [](manifest_json # <<>> => manifest_json[1] # <<>>)
    /\ [][(HandOver /\ Len(bins) = 1)
              => /\ pc' \in {"done", "next_package"}
                 /\ output_path' # <<>>
                 /\ bins[1].path \notin DOMAIN files'
                 /\ UNCHANGED <<manifest_json, cargo_builds, artifacts>>]_vars
    /\ [][(HandOver /\ Len(bins) # 1)
              => /\ pc' = "sort_by_features"
                 /\ manifest_json' = <<bins>>
                 /\ artifacts' = bins
                 /\ cargo_builds' = cargo_builds + 1]_vars

\* two variants were built, the one that survived deduplication declares a
\* feature, and it was moved to the final output without a manifest
C26_Witness ==
    /\ pc = "done"
    /\ Cardinality(cpu_features) >= 2
    /\ Len(bins) = 1
    /\ bins[1].cpufeatures # <<>>
    /\ output_path # <<>>
    /\ manifest_json = <<>>
    /\ cargo_builds = Cardinality(cpu_features)

====
